---- MODULE Spec2Model ----
(***************************************************************************)
(* Flowknow workbench: the form engine (createFlowForm, reconcileFlowForm,  *)
(* updateFlowForm of the 'flowform' package) and the useFlowForm hook that  *)
(* holds one form instance for a page.                                      *)
(*                                                                          *)
(* The three engine functions are imported by the Workbench page; their     *)
(* bodies are not among the page sources, so they are written here from     *)
(* section 4.1 of the specification.  The hook (mount, reconcile effect,    *)
(* handleChange, reset) is translated from the Workbench source.            *)
(*                                                                          *)
(* Field values are opaque to the engine.  They are modelled as string      *)
(* tokens: "" is the empty string, "0" the number 0 (both falsy in JS),     *)
(* "750" the declared chunk-size default, "900" a caller-supplied value.    *)
(***************************************************************************)
EXTENDS Integers, Sequences, FiniteSets, TLC

VARIABLES
    definition,   \* the hook's definition argument of the latest render
    initial,      \* the hook's initial argument of the latest render
    form,         \* the FlowFormInstance held in the hook's state
    call,         \* log of the operation that produced form
    received,     \* history: field ids that got a value since the instance was created
    apiKey,       \* Workbench: the stored API key, its prop, local storage and effect bookkeeping
    store,        \* a page that keeps instances by reference (snapshots, last stored wins)
    forms,        \* Workbench: the instances of the forms of one page
    page          \* Playground / Workbench: list, selection, detail and request state

vars == <<definition, initial, form, call, received, apiKey, store, forms, page>>

\* value of a variable a specification does not use
Unused == "unused"

----------------------------------------------------------------------------
(* Bounds and the finite universes the inputs are drawn from *)

\* how many distinct non-empty texts a user may type
MaxTyped == 1

TypedText == <<"Docs", "FAQ", "Notes">>

\* values the renderer may pass to handleChange: the cleared field and typed texts
UserValues == {""} \cup { TypedText[i] : i \in 1..MaxTyped }

\* values a caller may pass in an initial-values map (two of them falsy)
InitValues == {"", "0", "900"}

FieldIds == {"name", "chunk_size", "hf_api_key"}

\* a field without defaultValue simply has no such key, as in the TS object
NameField == [id |-> "name"]
ChunkSizeField == [id |-> "chunk_size", defaultValue |-> "750"]
KeyField == [id |-> "hf_api_key"]

\* name + chunk_size (default 750): the scenario of section 8
DefScenario == [id |-> "scenario", sections |-> << <<NameField, ChunkSizeField>> >>]
\* the scenario with chunk_size removed
DefNameOnly == [id |-> "name-only", sections |-> << <<NameField>> >>]
\* a field introduced in a second section
DefWithKey == [id |-> "with-key", sections |-> << <<NameField>>, <<KeyField>> >>]
\* the scenario's fields, regrouped and reordered
DefRegrouped == [id |-> "regrouped", sections |-> << <<ChunkSizeField>>, <<NameField>> >>]

Definitions == {DefScenario, DefNameOnly, DefWithKey, DefRegrouped}

DefinitionById(id) == CHOOSE d \in Definitions : d.id = id

EmptyMap == [k \in {} |-> ""]

\* initial-values maps: none, every single-key map, and one two-key map
InitialMaps ==
    {EmptyMap}
    \cup { [k \in {f} |-> v] : f \in FieldIds, v \in InitValues }
    \cup { [k \in {"chunk_size", "hf_api_key"} |-> IF k = "chunk_size" THEN "900" ELSE ""] }

\* an optional argument: absent (undefined) or a map
Undefined == [given |-> FALSE]
Given(m) == [given |-> TRUE, map |-> m]
OptionalInitialMaps == {Undefined} \cup { Given(m) : m \in InitialMaps }

----------------------------------------------------------------------------
(* The form engine *)

HasDefault(field) == "defaultValue" \in DOMAIN field

RECURSIVE Flatten(_)
Flatten(sections) ==
    IF sections = <<>> THEN <<>>
    ELSE Head(sections) \o Flatten(Tail(sections))

\* variant: only the first section's fields are read
FlattenedFields_FirstSection(def) == Head(def.sections)

FlattenedFields(def) == Flatten(def.sections)

FlattenedIds(def) ==
    LET fs == FlattenedFields(def) IN { fs[i].id : i \in 1..Len(fs) }

Put(values, key, value) ==
    [k \in DOMAIN values \cup {key} |-> IF k = key THEN value ELSE values[k]]

\* initialValues[id] if the key is present, else the declared default, else omit
ResolveInitial(values, field, init) ==
    IF field.id \in DOMAIN init THEN Put(values, field.id, init[field.id])
    ELSE IF HasDefault(field) THEN Put(values, field.id, field.defaultValue)
    ELSE values

RECURSIVE CreateValues(_, _, _)
CreateValues(fields, init, acc) ==
    IF fields = <<>> THEN acc
    ELSE CreateValues(Tail(fields), init, ResolveInitial(acc, Head(fields), init))

createFlowForm(def, init) ==
    [definitionId |-> def.id,
     values |-> CreateValues(FlattenedFields(def), init, EmptyMap)]

\* {...instance.values, ...patch}
updateFlowForm(instance, patch) ==
    [definitionId |-> instance.definitionId,
     values |-> [k \in DOMAIN instance.values \cup DOMAIN patch |->
                    IF k \in DOMAIN patch THEN patch[k] ELSE instance.values[k]]]

RECURSIVE ReconcileValues(_, _, _, _)
ReconcileValues(fields, prior, init, acc) ==
    IF fields = <<>> THEN acc
    ELSE LET field == Head(fields)
             next == IF field.id \in DOMAIN prior
                     THEN Put(acc, field.id, prior[field.id])
                     ELSE ResolveInitial(acc, field, init)
         IN ReconcileValues(Tail(fields), prior, init, next)

reconcileFlowForm(instance, def, init) ==
    [definitionId |-> def.id,
     values |-> ReconcileValues(FlattenedFields(def), instance.values, init, EmptyMap)]

----------------------------------------------------------------------------
(* The useFlowForm hook *)

\* variant: the initializer drops the initial argument
MountForm_NoInitial(def, init) == createFlowForm(def, EmptyMap)

\* variant: the initializer spreads the initial map over the defaults
MountForm_SpreadInitial(def, init) ==
    [definitionId |-> def.id,
     values |-> updateFlowForm(createFlowForm(def, EmptyMap), init).values]

\* useState(() => createFlowForm(definition, initial))
MountForm(def, init) == createFlowForm(def, init)

Init ==
    /\ definition \in Definitions
    /\ initial \in InitialMaps
    /\ form = MountForm(definition, initial)
    /\ call = [op |-> "instantiate"]
    /\ received = DOMAIN form.values
    /\ apiKey = Unused
    /\ store = Unused
    /\ forms = Unused
    /\ page = Unused

\* the page is unmounted and mounted again with some arguments
Mount(def, init) ==
    /\ definition' = def
    /\ initial' = init
    /\ form' = MountForm(def, init)
    /\ call' = [op |-> "instantiate"]
    /\ received' = DOMAIN form'.values

\* variant: the effect re-instantiates instead of reconciling
ReconcileEffect_Reinstantiate(def, init) ==
    /\ definition' = def
    /\ initial' = init
    /\ form' = createFlowForm(def, init)
    /\ call' = [op |-> "reconcile", prev |-> form]
    /\ received' = received \cup DOMAIN form'.values

\* variant: the effect spreads the previous values over a fresh instance
ReconcileEffect_Merge(def, init) ==
    /\ definition' = def
    /\ initial' = init
    /\ form' = [definitionId |-> def.id,
                values |-> updateFlowForm(createFlowForm(def, init), form.values).values]
    /\ call' = [op |-> "reconcile", prev |-> form]
    /\ received' = received \cup DOMAIN form'.values

\* variant: the effect calls updateFlowForm with the initial map
ReconcileEffect_UpdateInstead(def, init) ==
    /\ definition' = def
    /\ initial' = init
    /\ form' = updateFlowForm(form, init)
    /\ call' = [op |-> "reconcile", prev |-> form]
    /\ received' = received \cup DOMAIN form'.values

\* variant: the effect drops the initial argument
ReconcileEffect_NoInitial(def, init) ==
    /\ definition' = def
    /\ initial' = init
    /\ form' = reconcileFlowForm(form, def, EmptyMap)
    /\ call' = [op |-> "reconcile", prev |-> form]
    /\ received' = received \cup DOMAIN form'.values

\* variant: definition is missing from the effect's dependencies, so the
\* effect still closes over the definition of the previous render
ReconcileEffect_StaleDefinition(def, init) ==
    /\ definition' = def
    /\ initial' = init
    /\ form' = reconcileFlowForm(form, definition, init)
    /\ call' = [op |-> "reconcile", prev |-> form]
    /\ received' = received \cup DOMAIN form'.values

\* variant: setFormState(reconcileFlowForm(form, definition, initial)) with the
\* form of the effect's render, which an edit made since has not reached
ReconcileEffect_FromRender(def, init) ==
    /\ definition' = def
    /\ initial' = init
    /\ form' = reconcileFlowForm(IF call.op = "update" THEN call.prev ELSE form, def, init)
    /\ call' = [op |-> "reconcile", prev |-> form]
    /\ received' = received \cup DOMAIN form'.values

\* a render with (possibly new) arguments, followed by the effect
\* setFormState((prev) => reconcileFlowForm(prev, definition, initial))
ReconcileEffect(def, init) ==
    /\ definition' = def
    /\ initial' = init
    /\ form' = reconcileFlowForm(form, def, init)
    /\ call' = [op |-> "reconcile", prev |-> form]
    /\ received' = received \cup DOMAIN form'.values

\* variant: the handler stores the patch alone instead of merging it
handleChange_Replace(fieldId, value) ==
    /\ form' = [definitionId |-> form.definitionId, values |-> [k \in {fieldId} |-> value]]
    /\ call' = [op |-> "update", prev |-> form, patch |-> [k \in {fieldId} |-> value]]
    /\ received' = received \cup DOMAIN form'.values
    /\ UNCHANGED <<definition, initial>>

\* variant: the handler ignores a field id the instance's definition does not declare
handleChange_Validates(fieldId, value) ==
    /\ form' = IF fieldId \in FlattenedIds(DefinitionById(form.definitionId))
               THEN updateFlowForm(form, [k \in {fieldId} |-> value])
               ELSE form
    /\ call' = [op |-> "update", prev |-> form, patch |-> [k \in {fieldId} |-> value]]
    /\ received' = received \cup DOMAIN form'.values
    /\ UNCHANGED <<definition, initial>>

\* setFormState((prev) => updateFlowForm(prev, { [fieldId]: value }))
handleChange(fieldId, value) ==
    /\ form' = updateFlowForm(form, [k \in {fieldId} |-> value])
    /\ call' = [op |-> "update", prev |-> form, patch |-> [k \in {fieldId} |-> value]]
    /\ received' = received \cup DOMAIN form'.values
    /\ UNCHANGED <<definition, initial>>

\* variant: reset reconciles the held instance instead of replacing it
reset_KeepsValues(nextInitial) ==
    /\ form' = reconcileFlowForm(form, definition,
                                 IF nextInitial.given THEN nextInitial.map ELSE initial)
    /\ call' = [op |-> "reset", prev |-> form, nextInitial |-> nextInitial]
    /\ received' = DOMAIN form'.values
    /\ UNCHANGED <<definition, initial>>

\* setFormState(createFlowForm(definition, nextInitial ?? initial))
reset(nextInitial) ==
    /\ form' = createFlowForm(definition, IF nextInitial.given THEN nextInitial.map ELSE initial)
    /\ call' = [op |-> "reset", prev |-> form, nextInitial |-> nextInitial]
    /\ received' = DOMAIN form'.values
    /\ UNCHANGED <<definition, initial>>

\* the hook alone: the page-level variables are not used
HookOnly == UNCHANGED <<apiKey, store, forms, page>>

Next ==
    \/ \E def \in Definitions, init \in InitialMaps : Mount(def, init) /\ HookOnly
    \/ \E def \in Definitions, init \in InitialMaps : ReconcileEffect(def, init) /\ HookOnly
    \/ \E fieldId \in FieldIds, value \in UserValues : handleChange(fieldId, value) /\ HookOnly
    \/ \E nextInitial \in OptionalInitialMaps : reset(nextInitial) /\ HookOnly

Spec == Init /\ [][Next]_vars

----------------------------------------------------------------------------
(* The Workbench upload form and the stored Hugging Face key *)

\* null (hfApiKey: string | null, localStorage.getItem of a missing entry)
NullKey == "null"

\* a key is truthy when it is neither null nor the empty string
Truthy(k) == k # NullKey /\ k # ""

ChunkOverlapField == [id |-> "chunk_overlap", defaultValue |-> "50"]

UploadDefinition ==
    [id |-> "flowknow-upload",
     sections |-> << <<ChunkSizeField, ChunkOverlapField, KeyField>> >>]

\* values of the hfApiKey prop, of the entry found in local storage at mount,
\* and the edits a user makes in the upload form
PropKeys == {NullKey, "hf_prop"}
SavedKeys == {NullKey, "hf_saved"}
UploadEdits ==
    { <<"hf_api_key", v>> : v \in {"", "hf_typed"} } \cup { <<"chunk_size", "900">> }

\* useState initializer of useStoredApiKey
InitialStoredKey(prop, saved) ==
    IF Truthy(prop) THEN prop
    ELSE IF saved # NullKey THEN saved ELSE ""

\* the initial map of the useFlowForm call of the upload form
UploadInitial(storedKey) ==
    [k \in {"chunk_size", "chunk_overlap", "hf_api_key"} |->
        CASE k = "chunk_size" -> "750"
          [] k = "chunk_overlap" -> "50"
          [] OTHER -> storedKey]

\* String(form.values.hf_api_key ?? ''): the field holds strings, which String keeps
CurrentKey(instance) ==
    IF "hf_api_key" \in DOMAIN instance.values THEN instance.values["hf_api_key"] ELSE ""

\* variant: the Workbench effect overwrites the field with the stored key
WorkbenchReconcile_Overwrite(prev, storedKey) ==
    updateFlowForm(prev, [k \in {"hf_api_key"} |-> storedKey])

\* reconcileFlowForm(prev, uploadDefinition, { chunk_size: prev.values.chunk_size ?? 750, ... })
WorkbenchReconcile(prev, storedKey) ==
    reconcileFlowForm(prev, UploadDefinition,
        [k \in {"chunk_size", "chunk_overlap", "hf_api_key"} |->
            CASE k = "hf_api_key" -> storedKey
              [] k \in DOMAIN prev.values -> prev.values[k]
              [] k = "chunk_size" -> "750"
              [] OTHER -> "50"])

UploadInit ==
    /\ definition = UploadDefinition
    /\ \E prop \in PropKeys, saved \in SavedKeys :
           apiKey = [hfApiKey |-> prop,
                     storedKey |-> InitialStoredKey(prop, saved),
                     localStorage |-> saved,
                     reported |-> NullKey,
                     touched |-> FALSE,
                     cleared |-> FALSE,
                     seen |-> [mounted |-> FALSE]]
    /\ initial = UploadInitial(apiKey.storedKey)
    /\ form = MountForm(definition, initial)
    /\ call = [op |-> "instantiate"]
    /\ received = DOMAIN form.values
    /\ store = Unused
    /\ forms = Unused
    /\ page = Unused

\* a render was committed whose effects have not run yet
CommitDue ==
    IF ~apiKey.seen.mounted THEN TRUE
    ELSE \/ apiKey.seen.hfApiKey # apiKey.hfApiKey
         \/ apiKey.seen.storedKey # apiKey.storedKey
         \/ apiKey.seen.form # form

Settled == ~CommitDue

\* One commit: the effects whose dependencies changed since the last commit
\* run in source order, all reading the storedKey and form of this render;
\* the state updates they queue are applied afterwards, in order.
UploadCommit ==
    /\ CommitDue
    /\ LET first == ~apiKey.seen.mounted
           prop == apiKey.hfApiKey
           k == apiKey.storedKey
           propChanged == IF first THEN TRUE ELSE apiKey.seen.hfApiKey # prop
           keyChanged == IF first THEN TRUE ELSE apiKey.seen.storedKey # k
           fieldChanged == IF first THEN TRUE ELSE CurrentKey(apiKey.seen.form) # CurrentKey(form)
           \* useStoredApiKey: if (!initial) return; setKey(initial)
           afterProp == IF propChanged /\ Truthy(prop) THEN prop ELSE k
           \* useFlowForm effect (its initial argument is a new object in every render)
           afterHook == reconcileFlowForm(form, UploadDefinition, UploadInitial(k))
           \* Workbench effect on [setUploadForm, storedKey, uploadDefinition]
           afterWorkbench == IF keyChanged THEN WorkbenchReconcile(afterHook, k) ELSE afterHook
           \* Workbench effect: if (currentKey !== storedKey) setStoredKey(currentKey)
           afterSync == IF (fieldChanged \/ keyChanged) /\ CurrentKey(form) # k
                        THEN CurrentKey(form) ELSE afterProp
       IN /\ form' = afterWorkbench
          /\ initial' = UploadInitial(k)
          /\ call' = [op |-> "reconcile", prev |-> form]
          /\ received' = received \cup DOMAIN form'.values
          /\ apiKey' = [apiKey EXCEPT
                 !.storedKey = afterSync,
                 \* useStoredApiKey effect on [key]: setItem or removeItem
                 !.localStorage = IF keyChanged THEN (IF k # "" THEN k ELSE NullKey) ELSE @,
                 \* onApiKeyChange(storedKey || null)
                 !.reported = IF keyChanged THEN (IF k # "" THEN k ELSE NullKey) ELSE @,
                 !.seen = [mounted |-> TRUE, hfApiKey |-> prop, storedKey |-> k, form |-> form]]
    /\ UNCHANGED <<definition, store, forms, page>>

\* the parent passes another hfApiKey to the mounted page
UploadPropChange(prop) ==
    /\ apiKey.seen.mounted
    /\ prop # apiKey.hfApiKey
    /\ apiKey' = [apiKey EXCEPT !.hfApiKey = prop]
    /\ UNCHANGED <<definition, initial, form, call, received, store, forms, page>>

\* the renderer reports an edit of a field of the upload form
UploadEdit(fieldId, value) ==
    /\ apiKey.seen.mounted
    /\ handleChange(fieldId, value)
    /\ apiKey' = [apiKey EXCEPT
           !.touched = @ \/ fieldId = "hf_api_key",
           !.cleared = IF fieldId = "hf_api_key" THEN value = "" ELSE @]
    /\ UNCHANGED <<store, forms, page>>

UploadNext ==
    \/ UploadCommit
    \/ \E prop \in PropKeys : UploadPropChange(prop)
    \/ \E e \in UploadEdits : UploadEdit(e[1], e[2])

SpecUpload == UploadInit /\ [][UploadNext]_vars

----------------------------------------------------------------------------
(* A page that keeps instances by reference *)

(* Instances, definitions and initial maps are JS objects: a caller holds a  *)
(* reference, and what it reads through the reference is the object's       *)
(* current content.  The heap is the sequence of objects allocated so far;  *)
(* a reference is an index into it.  A page holds one instance, two callers *)
(* read the held instance (the snapshot), one computes an update from it,   *)
(* the other a reconcile, and each stores its output when it is done.       *)

\* how often the page may reset the form before the callers read it
MaxResets == 1

NoRef == 0

\* initial maps of this page: none, a caller-supplied chunk size, an empty key
SnapshotInitialMaps ==
    {EmptyMap, [k \in {"chunk_size"} |-> "900"], [k \in {"hf_api_key"} |-> ""]}

\* variant: update writes the merged values into the instance passed in
HeapUpdate_InPlace(heap, ref, patch) ==
    Append([heap EXCEPT ![ref] = updateFlowForm(heap[ref], patch)],
           updateFlowForm(heap[ref], patch))

\* update allocates its result; the new instance is the last cell
HeapUpdate(heap, ref, patch) == Append(heap, updateFlowForm(heap[ref], patch))

\* variant: reconcile prunes and fills the instance passed in
HeapReconcile_InPlace(heap, ref, defRef, initRef) ==
    Append([heap EXCEPT ![ref] = reconcileFlowForm(heap[ref], heap[defRef], heap[initRef])],
           reconcileFlowForm(heap[ref], heap[defRef], heap[initRef]))

\* reconcile allocates its result
HeapReconcile(heap, ref, defRef, initRef) ==
    Append(heap, reconcileFlowForm(heap[ref], heap[defRef], heap[initRef]))

\* instantiate allocates its result
HeapCreate(heap, defRef, initRef) ==
    Append(heap, createFlowForm(heap[defRef], heap[initRef]))

DefRef == 1
InitRef == 2

SnapshotInit ==
    /\ definition \in Definitions
    /\ initial \in SnapshotInitialMaps
    /\ store = [heap |-> HeapCreate(<<definition, initial>>, DefRef, InitRef),
                held |-> 3,
                snapshot |-> NoRef,
                snapValue |-> Unused,
                update |-> [ref |-> NoRef, patch |-> EmptyMap],
                reconcile |-> [ref |-> NoRef, defRef |-> NoRef, initRef |-> NoRef,
                               def |-> Unused, init |-> Unused],
                stored |-> <<>>,
                resets |-> 0]
    /\ form = store.heap[store.held]
    /\ call = [op |-> "instantiate"]
    /\ received = Unused
    /\ apiKey = Unused
    /\ forms = Unused
    /\ page = Unused

SnapshotFrame == UNCHANGED <<definition, initial, received, apiKey, forms, page>>

\* the page resets the form: a fresh instance is allocated and stored
StoreReset ==
    /\ store.snapshot = NoRef
    /\ store.resets < MaxResets
    /\ LET heap == HeapCreate(store.heap, DefRef, InitRef)
       IN /\ store' = [store EXCEPT !.heap = heap, !.held = Len(heap), !.resets = @ + 1]
          /\ form' = heap[Len(heap)]
    /\ call' = [op |-> "reset"]
    /\ SnapshotFrame

\* both callers read the instance the page holds
Capture ==
    /\ store.snapshot = NoRef
    /\ store' = [store EXCEPT !.snapshot = store.held,
                              !.snapValue = store.heap[store.held]]
    /\ call' = [op |-> "capture"]
    /\ UNCHANGED form
    /\ SnapshotFrame

\* the first caller computes an update from the snapshot
ComputeUpdate(fieldId, value) ==
    /\ store.snapshot # NoRef
    /\ store.update.ref = NoRef
    /\ LET patch == [k \in {fieldId} |-> value]
           heap == HeapUpdate(store.heap, store.snapshot, patch)
       IN store' = [store EXCEPT !.heap = heap,
                                 !.update = [ref |-> Len(heap), patch |-> patch]]
    /\ call' = [op |-> "update"]
    /\ UNCHANGED form
    /\ SnapshotFrame

\* the second caller computes a reconcile from the snapshot, against a
\* definition and an initial map it allocated
ComputeReconcile(def, init) ==
    /\ store.snapshot # NoRef
    /\ store.reconcile.ref = NoRef
    /\ LET args == store.heap \o <<def, init>>
           defRef == Len(store.heap) + 1
           initRef == Len(store.heap) + 2
           heap == HeapReconcile(args, store.snapshot, defRef, initRef)
       IN store' = [store EXCEPT !.heap = heap,
                                 !.reconcile = [ref |-> Len(heap), defRef |-> defRef,
                                                initRef |-> initRef,
                                                def |-> def, init |-> init]]
    /\ call' = [op |-> "reconcile"]
    /\ UNCHANGED form
    /\ SnapshotFrame

OutputRef(op) == IF op = "update" THEN store.update.ref ELSE store.reconcile.ref

Stored(op) == \E i \in 1..Len(store.stored) : store.stored[i] = op

\* variant: the page re-applies the call to the instance it holds at that
\* moment instead of storing the output computed from the snapshot
StoreOutput_Rebased(op) ==
    /\ OutputRef(op) # NoRef
    /\ ~Stored(op)
    /\ LET heap == IF op = "update"
                   THEN HeapUpdate(store.heap, store.held, store.update.patch)
                   ELSE HeapReconcile(store.heap, store.held,
                                      store.reconcile.defRef, store.reconcile.initRef)
       IN /\ store' = [store EXCEPT !.heap = heap, !.held = Len(heap),
                                    !.stored = Append(@, op),
                                    !.update.ref = IF op = "update" THEN Len(heap) ELSE @,
                                    !.reconcile.ref = IF op = "reconcile" THEN Len(heap) ELSE @]
          /\ form' = heap[Len(heap)]
    /\ call' = [op |-> "store"]
    /\ SnapshotFrame

\* a caller stores its output: the page now holds that instance
StoreOutput(op) ==
    /\ OutputRef(op) # NoRef
    /\ ~Stored(op)
    /\ store' = [store EXCEPT !.held = OutputRef(op), !.stored = Append(@, op)]
    /\ form' = store.heap[OutputRef(op)]
    /\ call' = [op |-> "store"]
    /\ SnapshotFrame

SnapshotNext ==
    \/ StoreReset
    \/ Capture
    \/ \E fieldId \in FieldIds, value \in UserValues : ComputeUpdate(fieldId, value)
    \/ \E def \in Definitions, init \in SnapshotInitialMaps : ComputeReconcile(def, init)
    \/ \E op \in {"update", "reconcile"} : StoreOutput(op)

SpecSnapshot == SnapshotInit /\ [][SnapshotNext]_vars

----------------------------------------------------------------------------
(* The four forms of the Workbench page *)

DescriptionField == [id |-> "description"]
EntriesField == [id |-> "entries"]
TitleField == [id |-> "title"]
ContentField == [id |-> "content"]

CreateDefinition ==
    [id |-> "flowknow-create", sections |-> << <<NameField, DescriptionField>> >>]

AutoDefinition ==
    [id |-> "flowknow-auto",
     sections |-> << <<NameField, DescriptionField>>,
                     <<EntriesField, ChunkSizeField, ChunkOverlapField>> >>]

TextDefinition ==
    [id |-> "flowknow-text",
     sections |-> << <<TitleField, ContentField, ChunkSizeField, ChunkOverlapField>> >>]

FormNames == {"create", "auto", "text", "upload"}

FormDefinition(name) ==
    CASE name = "create" -> CreateDefinition
      [] name = "auto" -> AutoDefinition
      [] name = "text" -> TextDefinition
      [] name = "upload" -> UploadDefinition

\* the hook's initial argument: absent for three forms, the stored key's map
\* for the upload form
FormInitial(name, storedKey) ==
    IF name = "upload" THEN UploadInitial(storedKey) ELSE EmptyMap

\* values of storedKey the page may render with
StoredKeys == {"", "hf_saved"}

\* what the renderers pass to handleChange: each form's own text field, and
\* the chunk fields that three definitions share
FormEdits ==
    {<<"create", "name", "Docs">>}
    \cup { <<n, "chunk_size", "900">> : n \in {"auto", "text", "upload"} }
    \cup { <<n, "chunk_overlap", "">> : n \in {"auto", "text", "upload"} }
    \cup {<<"auto", "entries", "Docs">>, <<"text", "content", "Docs">>,
          <<"upload", "hf_api_key", "hf_typed">>}

\* the forms whose reset the page calls
ResetForms == {"create", "auto", "text"}

FormsInit ==
    /\ \E storedKey \in StoredKeys :
          forms = [n \in FormNames |-> MountForm(FormDefinition(n), FormInitial(n, storedKey))]
    /\ call = [op |-> "instantiate", form |-> "all"]
    /\ definition = Unused
    /\ initial = Unused
    /\ form = Unused
    /\ received = Unused
    /\ apiKey = Unused
    /\ store = Unused
    /\ page = Unused

FormsFrame == UNCHANGED <<definition, initial, form, received, apiKey, store, page>>

\* variant: the values live in one page-level store keyed by field id, so an
\* edit reaches every form that declares the field
FormChange_SharedValues(name, fieldId, value) ==
    /\ forms' = [n \in FormNames |->
                    IF fieldId \in FlattenedIds(FormDefinition(n))
                    THEN updateFlowForm(forms[n], [k \in {fieldId} |-> value])
                    ELSE forms[n]]
    /\ call' = [op |-> "update", form |-> name]

\* <FlowFormRenderer form={xForm.form} onChange={xForm.handleChange} />
FormChange(name, fieldId, value) ==
    /\ forms' = [forms EXCEPT ![name] = updateFlowForm(@, [k \in {fieldId} |-> value])]
    /\ call' = [op |-> "update", form |-> name]

\* xForm.reset()
FormReset(name) ==
    /\ forms' = [forms EXCEPT ![name] =
                    createFlowForm(FormDefinition(name), FormInitial(name, ""))]
    /\ call' = [op |-> "reset", form |-> name]

\* the reconcile effect of one useFlowForm call
FormReconcile(name, storedKey) ==
    /\ forms' = [forms EXCEPT ![name] =
                    reconcileFlowForm(@, FormDefinition(name), FormInitial(name, storedKey))]
    /\ call' = [op |-> "reconcile", form |-> name]

FormsNext ==
    \/ \E e \in FormEdits : FormChange(e[1], e[2], e[3]) /\ FormsFrame
    \/ \E name \in ResetForms : FormReset(name) /\ FormsFrame
    \/ \E name \in FormNames, storedKey \in StoredKeys : FormReconcile(name, storedKey) /\ FormsFrame

SpecForms == FormsInit /\ [][FormsNext]_vars

----------------------------------------------------------------------------
(* The Playground and Workbench pages: list, selection, detail, requests *)

(* A page is the record of its useState cells plus the requests that are in  *)
(* flight and the submit handler that is suspended at an await.  A request  *)
(* is sent in one step and answered in a later one, by success or by a      *)
(* thrown Error whose message is Boom.  Effects run in a commit step, in    *)
(* source order, reading the values of the render they belong to; the       *)
(* commit is taken before any other step.                                   *)

\* requests in flight beyond which the user starts nothing new
MaxInflight == 2

\* how many times the user edits, selects, submits or refreshes on one page
MaxEvents == 3

PageKinds == {"Playground", "Workbench"}

\* workspace ids: A exists on the server, B is the id a create returns
KbIds == {"A", "B"}
CreatedId == "B"

\* what the list endpoint may return
KbLists == {<<>>, <<"A">>, <<"A", "B">>}

\* the document lists a workspace detail may carry
DocLists == {<<>>, <<"d1">>}

NoDetail == [id |-> NullKey, documents |-> <<>>]

\* files a user may pick in one file dialog
FileLists == {<<"f1">>, <<"f1", "f2">>}

\* text a user may type into a name or content field; Blank is whitespace
Blank == " "
PageTexts == {Blank, "Docs"}

\* String.prototype.trim
Trim(text) == IF text = Blank THEN "" ELSE text

\* String(values[id] ?? '')
ValueOrEmpty(instance, id) ==
    IF id \in DOMAIN instance.values THEN instance.values[id] ELSE ""

\* the message of the Error an API call throws
Boom == "Request failed"

NameRequired == "Name is required"
AutoRequired == "Provide a name and at least one entry"
ContentRequired == "Content is required"
SelectFirst == "Select a knowledge base first"
Working == "working"
Succeeded == "succeeded"

NoTask == [name |-> "none", pc |-> "none", sel |-> NullKey, files |-> <<>>, calls |-> <<>>]

SeqToSet(s) == { s[i] : i \in 1..Len(s) }

\* what the edits of the Workbench forms may be on this page
PageEdits ==
    { <<"create", "name", t>> : t \in PageTexts }
    \cup {<<"auto", "name", "Docs">>, <<"auto", "entries", "Docs">>}
    \cup {<<"text", "content", "Docs">>}

PageInit ==
    /\ \E kind \in PageKinds :
        /\ page = [kind |-> kind,
                   knowledgeBases |-> <<>>,
                   loadingList |-> TRUE,
                   listError |-> NullKey,
                   selectedId |-> NullKey,
                   detail |-> NoDetail,
                   detailLoading |-> FALSE,
                   detailError |-> NullKey,
                   selectedDocumentId |-> NullKey,
                   documentDetail |-> NullKey,
                   documentLoading |-> FALSE,
                   documentError |-> NullKey,
                   createName |-> "",
                   status |-> [n \in FormNames |-> NullKey],
                   uploading |-> FALSE,
                   fileInput |-> <<>>,
                   seen |-> [mounted |-> FALSE, selectedId |-> NullKey,
                             selectedDocumentId |-> NullKey, detail |-> NoDetail],
                   events |-> 0,
                   unmounted |-> FALSE,
                   inflight |-> {},
                   task |-> NoTask]
        /\ forms = IF kind = "Workbench"
                   THEN [n \in FormNames |-> MountForm(FormDefinition(n), FormInitial(n, ""))]
                   ELSE [n \in FormNames |-> Unused]
    /\ call = [op |-> "mount"]
    /\ definition = Unused
    /\ initial = Unused
    /\ form = Unused
    /\ received = Unused
    /\ apiKey = Unused
    /\ store = Unused

PageFrame == UNCHANGED <<definition, initial, form, received, apiKey, store>>

\* the smallest request number not in use
FreshId(inflight) ==
    CHOOSE n \in 1..(Cardinality(inflight) + 1) :
        /\ \A r \in inflight : r.id # n
        /\ \A m \in 1..(n - 1) : \E r \in inflight : r.id = m

Request(p, api, owner, a, b) ==
    [id |-> FreshId(p.inflight), api |-> api, owner |-> owner, a |-> a, b |-> b,
     ignore |-> FALSE]

\* an effect or a detached call sends a request
Send(p, api, owner, a, b) ==
    [p EXCEPT !.inflight = @ \cup {Request(p, api, owner, a, b)}]

\* the running handler sends a request and is suspended at pc
Await(p, api, a, b, pc) ==
    [p EXCEPT !.inflight = @ \cup {Request(p, api, "task", a, b)},
              !.task.pc = pc,
              !.task.calls = Append(@, <<api, a, b>>)]

\* an effect's cleanup: let ignore = true for the requests of its earlier runs
Cleanup(p, owner) ==
    [p EXCEPT !.inflight = { IF r.owner = owner THEN [r EXCEPT !.ignore = TRUE] ELSE r
                             : r \in @ }]

FirstOrNull(data) == IF Len(data) > 0 THEN data[1] ELSE NullKey

\* Playground, effect []: fetchKnowledgeBases
EffectList(r, p) ==
    Send([p EXCEPT !.loadingList = TRUE, !.listError = NullKey],
         "list", "listEffect", NullKey, NullKey)

\* Playground, effect [selectedId]: clear the document state, fetchDetail
EffectDetail(r, p) ==
    LET c == Cleanup(p, "detailEffect")
    IN IF r.selectedId = NullKey
       THEN [c EXCEPT !.detail = NoDetail, !.detailError = NullKey,
                      !.selectedDocumentId = NullKey, !.documentDetail = NullKey,
                      !.documentError = NullKey, !.documentLoading = FALSE]
       ELSE Send([c EXCEPT !.selectedDocumentId = NullKey, !.documentDetail = NullKey,
                           !.documentError = NullKey, !.documentLoading = FALSE,
                           !.detailLoading = TRUE, !.detailError = NullKey],
                 "get", "detailEffect", r.selectedId, NullKey)

\* Playground, effect [selectedId, selectedDocumentId]: fetchDocument
EffectDocument(r, p) ==
    LET c == Cleanup(p, "docEffect")
    IN IF r.selectedId = NullKey \/ r.selectedDocumentId = NullKey
       THEN c
       ELSE Send([c EXCEPT !.documentLoading = TRUE, !.documentError = NullKey],
                 "doc", "docEffect", r.selectedId, r.selectedDocumentId)

\* Playground, effect [detail]: keep the selected document or take the first
EffectAutoSelect(r, p) ==
    IF r.detail = NoDetail \/ r.detail.documents = <<>>
    THEN p
    ELSE [p EXCEPT !.selectedDocumentId =
                      IF @ # NullKey /\ @ \in SeqToSet(r.detail.documents)
                      THEN @ ELSE r.detail.documents[1]]

\* Workbench: refreshKnowledgeBases up to its await; target is
\* targetId ?? currentSelected ?? selectedId
WorkbenchRefreshStart(p, owner, target) ==
    LET q == [p EXCEPT !.loadingList = TRUE, !.listError = NullKey]
    IN IF owner = "task" THEN Await(q, "list", target, NullKey, "list")
       ELSE Send(q, "list", owner, target, NullKey)

\* Workbench, effect []: refreshKnowledgeBases(undefined, null)
EffectMount(r, p) == WorkbenchRefreshStart(p, "mount", NullKey)

\* Workbench: loadDetail up to its await
LoadDetailStart(p) == [p EXCEPT !.detailLoading = TRUE, !.detailError = NullKey]

\* Workbench, effect [selectedId]: loadDetail(selectedId)
EffectLoadDetail(r, p) ==
    IF r.selectedId = NullKey THEN p
    ELSE Send(LoadDetailStart(p), "get", "loadDetail", r.selectedId, NullKey)

SelectedChanged(p) == ~p.seen.mounted \/ p.seen.selectedId # p.selectedId

DocumentChanged(p) ==
    SelectedChanged(p) \/ p.seen.selectedDocumentId # p.selectedDocumentId

DetailChanged(p) == ~p.seen.mounted \/ p.seen.detail # p.detail

\* some effect's dependencies differ from the ones it last ran with
PageCommitDue ==
    /\ ~page.unmounted
    /\ \/ SelectedChanged(page)
       \/ page.kind = "Playground" /\ (DocumentChanged(page) \/ DetailChanged(page))

\* one commit: the effects whose dependencies changed run in source order
PageCommit ==
    /\ PageCommitDue
    /\ LET r == page
           playground == r.kind = "Playground"
           p1 == IF r.seen.mounted THEN r
                 ELSE IF playground THEN EffectList(r, r) ELSE EffectMount(r, r)
           p2 == IF ~SelectedChanged(r) THEN p1
                 ELSE IF playground THEN EffectDetail(r, p1) ELSE EffectLoadDetail(r, p1)
           p3 == IF playground /\ DocumentChanged(r) THEN EffectDocument(r, p2) ELSE p2
           p4 == IF playground /\ DetailChanged(r) THEN EffectAutoSelect(r, p3) ELSE p3
       IN page' = [p4 EXCEPT !.seen = [mounted |-> TRUE,
                                       selectedId |-> r.selectedId,
                                       selectedDocumentId |-> r.selectedDocumentId,
                                       detail |-> r.detail]]
    /\ call' = [op |-> "commit"]
    /\ UNCHANGED forms
    /\ PageFrame

\* the handler returns
EndTask(p) == [p EXCEPT !.task = NoTask]

SetStatus(p, n, message) == [p EXCEPT !.status[n] = message]

Failure == [ok |-> FALSE, data |-> <<>>]

\* how a request may be answered
Outcomes(api) ==
    {Failure} \cup
    { [ok |-> TRUE, data |-> d] :
        d \in IF api = "list" THEN KbLists ELSE IF api = "get" THEN DocLists ELSE {<<>>} }

\* Playground: refreshKnowledgeBases up to its await; target is targetId ?? selectedId
PlaygroundRefreshStart(p, target) ==
    Await([p EXCEPT !.loadingList = TRUE, !.listError = NullKey],
          "list", target, NullKey, "list")

\* Playground: the rest of fetchKnowledgeBases (functional setSelectedId)
ListEffectResponse(p, out) ==
    IF out.ok
    THEN [p EXCEPT !.knowledgeBases = out.data,
                   !.selectedId = IF @ # NullKey /\ @ \in SeqToSet(out.data)
                                  THEN @ ELSE FirstOrNull(out.data),
                   !.loadingList = FALSE]
    ELSE [p EXCEPT !.listError = Boom, !.loadingList = FALSE]

\* variant: the target is selected without looking it up in the list
PlaygroundRefreshResponse_NoLookup(p, req, out) ==
    IF out.ok
    THEN [p EXCEPT !.knowledgeBases = out.data,
                   !.selectedId = IF req.a # NullKey THEN req.a ELSE FirstOrNull(out.data),
                   !.loadingList = FALSE]
    ELSE [p EXCEPT !.listError = Boom, !.loadingList = FALSE]

\* Playground: the rest of refreshKnowledgeBases
PlaygroundRefreshResponse(p, req, out) ==
    IF out.ok
    THEN [p EXCEPT !.knowledgeBases = out.data,
                   !.selectedId = IF req.a # NullKey /\ req.a \in SeqToSet(out.data)
                                  THEN req.a ELSE FirstOrNull(out.data),
                   !.loadingList = FALSE]
    ELSE [p EXCEPT !.listError = Boom, !.loadingList = FALSE]

\* Workbench: the rest of refreshKnowledgeBases
WorkbenchRefreshResponse(p, req, out) ==
    IF out.ok
    THEN IF Len(out.data) > 0
         THEN [p EXCEPT !.knowledgeBases = out.data,
                        !.selectedId = IF req.a # NullKey THEN req.a ELSE out.data[1],
                        !.loadingList = FALSE]
         ELSE [p EXCEPT !.knowledgeBases = out.data, !.selectedId = NullKey,
                        !.detail = NoDetail, !.loadingList = FALSE]
    ELSE [p EXCEPT !.listError = Boom, !.loadingList = FALSE]

\* the rest of fetchDetail (Playground) and of loadDetail (Workbench)
DetailResponse(p, req, out) ==
    IF out.ok
    THEN [p EXCEPT !.detail = [id |-> req.a, documents |-> out.data],
                   !.detailLoading = FALSE]
    ELSE [p EXCEPT !.detailError = Boom, !.detailLoading = FALSE]

\* Playground: the rest of fetchDocument
DocumentResponse(p, req, out) ==
    IF out.ok
    THEN [p EXCEPT !.documentDetail = req.b, !.documentLoading = FALSE]
    ELSE [p EXCEPT !.documentError = Boom, !.documentLoading = FALSE]

\* variant: the handler reads the selection of the latest render
Captured_Latest(p) == p.selectedId

\* the selectedId of the render whose handler is running
Captured(p) == p.task.sel

\* variant: handleFileSelection without its finally block
Finally_Skipped(p) == p

\* Playground: finally { setUploading(false); event.target.value = '' }
Finally(p) == [p EXCEPT !.uploading = FALSE, !.fileInput = <<>>]

\* Playground: a handler resumes after its await
PlaygroundTaskResponse(p, req, out) ==
    CASE req.api = "create" ->
            IF out.ok
            THEN PlaygroundRefreshStart(
                     [SetStatus(p, "create", Succeeded) EXCEPT !.createName = ""], CreatedId)
            ELSE EndTask(SetStatus(p, "create", Boom))
      [] req.api = "list" ->
            LET q == PlaygroundRefreshResponse(p, req, out)
            IN IF p.task.name = "file"
               THEN Await(q, "get", p.task.sel, NullKey, "detail")
               ELSE EndTask(q)
      [] req.api = "file" ->
            IF ~out.ok
            THEN EndTask(Finally(SetStatus(p, "upload", Boom)))
            ELSE IF Len(p.task.files) > 1
            THEN Await([p EXCEPT !.task.files = Tail(@)],
                       "file", p.task.sel, p.task.files[2], "file")
            ELSE PlaygroundRefreshStart(SetStatus(p, "upload", Succeeded), Captured(p))
      [] req.api = "get" ->
            \* getKnowledgeBase(selectedId).then(setDetail).catch(() => undefined)
            LET q == IF out.ok
                     THEN [p EXCEPT !.detail = [id |-> req.a, documents |-> out.data]]
                     ELSE p
            IN EndTask(Finally(q))

\* Workbench: a handler resumes after its await
WorkbenchTaskResponse(p, req, out) ==
    CASE req.api = "list" -> EndTask(WorkbenchRefreshResponse(p, req, out))
      [] req.api \in {"create", "auto"} ->
            IF out.ok
            THEN WorkbenchRefreshStart(SetStatus(p, req.api, Succeeded), "task", CreatedId)
            ELSE EndTask(SetStatus(p, req.api, Boom))
      [] req.api \in {"text", "file"} ->
            LET n == IF req.api = "text" THEN "text" ELSE "upload"
            IN IF out.ok
               THEN Await(LoadDetailStart(SetStatus(p, n, Succeeded)),
                          "get", p.task.sel, NullKey, "detail")
               ELSE EndTask(SetStatus(p, n, Boom))
      [] req.api = "get" ->
            WorkbenchRefreshStart(DetailResponse(p, req, out), "task", p.task.sel)

\* the state cell that shows a failure of the call
ErrorField(p, req) ==
    CASE req.api = "list" -> p.listError
      [] req.api = "get" -> p.detailError
      [] req.api = "doc" -> p.documentError
      [] req.api = "file" -> p.status["upload"]
      [] OTHER -> p.status[req.api]

\* the loading flag of the call, where it has one
LoadingFlag(p, req) ==
    CASE req.api = "list" -> p.loadingList
      [] req.api = "get" ->
            IF p.kind = "Playground" /\ req.owner = "task" THEN p.uploading
            ELSE p.detailLoading
      [] req.api = "doc" -> p.documentLoading
      [] OTHER -> FALSE

\* variant: the handler resets the form in a finally block
ResetAfter_Always(req, out) ==
    IF page.kind = "Workbench" /\ req.owner = "task"
       /\ req.api \in {"create", "auto", "text"} /\ ~req.ignore
    THEN [forms EXCEPT ![req.api] =
             createFlowForm(FormDefinition(req.api), FormInitial(req.api, ""))]
    ELSE forms

\* the forms a successful Workbench submit resets
ResetAfter(req, out) ==
    IF page.kind = "Workbench" /\ req.owner = "task" /\ out.ok
       /\ req.api \in {"create", "auto", "text"} /\ ~req.ignore
    THEN [forms EXCEPT ![req.api] =
             createFlowForm(FormDefinition(req.api), FormInitial(req.api, ""))]
    ELSE forms

\* variant: the response handlers have no staleness check
Discarded_Never(req) == FALSE

\* if (!ignore) { ... }: the answer to a cleaned-up effect run is dropped
Discarded(req) == req.ignore

\* a request is answered
Respond(req, out) ==
    /\ ~PageCommitDue
    /\ req \in page.inflight
    /\ LET p0 == [page EXCEPT !.inflight = @ \ {req}]
           p1 == IF Discarded(req) THEN p0
                 ELSE IF req.owner = "task"
                 THEN IF p0.kind = "Playground" THEN PlaygroundTaskResponse(p0, req, out)
                      ELSE WorkbenchTaskResponse(p0, req, out)
                 ELSE CASE req.owner = "listEffect" -> ListEffectResponse(p0, out)
                        [] req.owner = "mount" -> WorkbenchRefreshResponse(p0, req, out)
                        [] req.owner = "docEffect" -> DocumentResponse(p0, req, out)
                        [] OTHER -> DetailResponse(p0, req, out)
       IN page' = p1
    /\ forms' = ResetAfter(req, out)
    /\ call' = [op |-> "respond", api |-> req.api, owner |-> req.owner,
                ok |-> out.ok, ignore |-> req.ignore]
    /\ PageFrame

\* the user can act: no commit is pending
Idle == ~PageCommitDue /\ ~page.unmounted

\* the user acts once more
HasBudget == page.events < MaxEvents
Event(p) == [p EXCEPT !.events = @ + 1]

\* a handler that awaits can start: none is suspended, and few requests are out
CanStart == page.task = NoTask /\ Cardinality(page.inflight) < MaxInflight

StartTask(p, name, files) ==
    [p EXCEPT !.task = [name |-> name, pc |-> "start", sel |-> p.selectedId,
                        files |-> files, calls |-> <<>>]]

\* onClick={() => setSelectedId(kb.id)}, on an entry of the list
SelectKnowledgeBase(id) ==
    /\ HasBudget
    /\ Idle
    /\ id \in SeqToSet(page.knowledgeBases)
    /\ id # page.selectedId
    /\ Cardinality(page.inflight) < MaxInflight
    /\ page' = Event([page EXCEPT !.selectedId = id])
    /\ call' = [op |-> "select"]
    /\ UNCHANGED forms
    /\ PageFrame

\* Playground: onChange={(event) => setCreateName(event.target.value)}
TypeName(text) ==
    /\ page.kind = "Playground"
    /\ Idle
    /\ HasBudget
    /\ text # page.createName
    /\ page' = Event([page EXCEPT !.createName = text])
    /\ call' = [op |-> "type"]
    /\ UNCHANGED forms
    /\ PageFrame

\* variant: the handler submits whatever the name is
handleCreateKnowledgeBase_NoCheck ==
    /\ HasBudget
    /\ page.kind = "Playground"
    /\ Idle
    /\ CanStart
    /\ page' = Await(StartTask(Event(SetStatus(page, "create", Working)), "create", <<>>),
                     "create", Trim(page.createName), NullKey, "create")
    /\ call' = [op |-> "handleCreateKnowledgeBase"]
    /\ UNCHANGED forms
    /\ PageFrame

\* Playground: handleCreateKnowledgeBase
handleCreateKnowledgeBase ==
    /\ HasBudget
    /\ page.kind = "Playground"
    /\ Idle
    /\ LET trimmedName == Trim(page.createName)
       IN IF trimmedName = ""
          THEN page' = Event(SetStatus(page, "create", NameRequired))
          ELSE /\ CanStart
               /\ page' = Await(StartTask(Event(SetStatus(page, "create", Working)), "create", <<>>),
                                "create", trimmedName, NullKey, "create")
    /\ call' = [op |-> "handleCreateKnowledgeBase"]
    /\ UNCHANGED forms
    /\ PageFrame

\* Playground: handleFileSelection; the input is disabled while uploading
handleFileSelection(files) ==
    /\ HasBudget
    /\ page.kind = "Playground"
    /\ Idle
    /\ ~page.uploading
    /\ IF page.selectedId = NullKey
       THEN page' = Event(SetStatus(page, "upload", SelectFirst))
       ELSE /\ CanStart
            /\ page' = Await(StartTask([Event(SetStatus(page, "upload", Working))
                                           EXCEPT !.uploading = TRUE,
                                                  !.fileInput = files], "file", files),
                             "file", page.selectedId, files[1], "file")
    /\ call' = [op |-> "handleFileSelection"]
    /\ UNCHANGED forms
    /\ PageFrame

\* Playground: handleDocumentSelect, on a document of the shown detail
handleDocumentSelect(docId) ==
    /\ HasBudget
    /\ page.kind = "Playground"
    /\ Idle
    /\ docId \in SeqToSet(page.detail.documents)
    /\ page.selectedId # NullKey
    /\ Cardinality(page.inflight) < MaxInflight
    /\ page' = Event([page EXCEPT !.selectedDocumentId = docId, !.documentLoading = TRUE,
                                  !.documentDetail = NullKey, !.documentError = NullKey])
    /\ call' = [op |-> "handleDocumentSelect"]
    /\ UNCHANGED forms
    /\ PageFrame

\* the Refresh button: refreshKnowledgeBases()
RefreshClick ==
    /\ HasBudget
    /\ Idle
    /\ CanStart
    /\ page' = IF page.kind = "Playground"
               THEN PlaygroundRefreshStart(StartTask(Event(page), "refresh", <<>>), page.selectedId)
               ELSE WorkbenchRefreshStart(StartTask(Event(page), "refresh", <<>>), "task",
                                          page.selectedId)
    /\ call' = [op |-> "refresh"]
    /\ UNCHANGED forms
    /\ PageFrame

\* Workbench: the user edits a field of one of the forms
WorkbenchEdit(name, fieldId, value) ==
    /\ page.kind = "Workbench"
    /\ Idle
    /\ HasBudget
    /\ ValueOrEmpty(forms[name], fieldId) # value
    /\ FormChange(name, fieldId, value)
    /\ page' = Event(page)
    /\ PageFrame

\* a Workbench submit handler passes its checks and sends its request
Submit(name, api, a, b) ==
    /\ CanStart
    /\ page' = Await(StartTask(Event(SetStatus(page, name, Working)), api, <<>>),
                     api, a, b, api)

\* variant: the handler submits whatever the name is
handleCreate_NoCheck ==
    /\ HasBudget
    /\ page.kind = "Workbench"
    /\ Idle
    /\ Submit("create", "create", Trim(ValueOrEmpty(forms["create"], "name")), NullKey)
    /\ call' = [op |-> "handleCreate"]
    /\ UNCHANGED forms
    /\ PageFrame

\* Workbench: handleCreate
handleCreate ==
    /\ HasBudget
    /\ page.kind = "Workbench"
    /\ Idle
    /\ LET name == Trim(ValueOrEmpty(forms["create"], "name"))
       IN IF name = ""
          THEN page' = Event(SetStatus(page, "create", NameRequired))
          ELSE Submit("create", "create", name, NullKey)
    /\ call' = [op |-> "handleCreate"]
    /\ UNCHANGED forms
    /\ PageFrame

\* Workbench: handleAutoBuild (entries that are not blank always parse to
\* at least one item)
handleAutoBuild ==
    /\ HasBudget
    /\ page.kind = "Workbench"
    /\ Idle
    /\ LET name == Trim(ValueOrEmpty(forms["auto"], "name"))
           entries == Trim(ValueOrEmpty(forms["auto"], "entries"))
       IN IF name = "" \/ entries = ""
          THEN page' = Event(SetStatus(page, "auto", AutoRequired))
          ELSE Submit("auto", "auto", name, entries)
    /\ call' = [op |-> "handleAutoBuild"]
    /\ UNCHANGED forms
    /\ PageFrame

\* Workbench: handleTextIngest
handleTextIngest ==
    /\ HasBudget
    /\ page.kind = "Workbench"
    /\ Idle
    /\ LET content == Trim(ValueOrEmpty(forms["text"], "content"))
       IN IF page.selectedId = NullKey
          THEN page' = Event(SetStatus(page, "text", SelectFirst))
          ELSE IF content = ""
          THEN page' = Event(SetStatus(page, "text", ContentRequired))
          ELSE Submit("text", "text", page.selectedId, content)
    /\ call' = [op |-> "handleTextIngest"]
    /\ UNCHANGED forms
    /\ PageFrame

\* Workbench: handleFileUpload with one file picked
handleFileUpload ==
    /\ HasBudget
    /\ page.kind = "Workbench"
    /\ Idle
    /\ IF page.selectedId = NullKey
       THEN page' = Event(SetStatus(page, "upload", SelectFirst))
       ELSE Submit("upload", "file", page.selectedId, "f1")
    /\ call' = [op |-> "handleFileUpload"]
    /\ UNCHANGED forms
    /\ PageFrame

\* Playground: the user leaves the page.  Every effect's cleanup runs; the
\* handler that may be suspended is not followed any further.
Unmount ==
    /\ page.kind = "Playground"
    /\ Idle
    /\ page.inflight # {}
    /\ LET c == Cleanup(Cleanup(Cleanup(page, "listEffect"), "detailEffect"), "docEffect")
       IN page' = [c EXCEPT !.unmounted = TRUE,
                            !.inflight = { r \in @ : r.owner # "task" },
                            !.task = NoTask]
    /\ call' = [op |-> "unmount"]
    /\ UNCHANGED forms
    /\ PageFrame

PageNext ==
    \/ PageCommit
    \/ Unmount
    \/ \E req \in page.inflight : \E out \in Outcomes(req.api) : Respond(req, out)
    \/ \E id \in KbIds : SelectKnowledgeBase(id)
    \/ \E text \in PageTexts : TypeName(text)
    \/ handleCreateKnowledgeBase
    \/ \E files \in FileLists : handleFileSelection(files)
    \/ \E docId \in {"d1"} : handleDocumentSelect(docId)
    \/ RefreshClick
    \/ \E e \in PageEdits : WorkbenchEdit(e[1], e[2], e[3])
    \/ handleCreate
    \/ handleAutoBuild
    \/ handleTextIngest
    \/ handleFileUpload

SpecPages == PageInit /\ [][PageNext]_vars

\* every request is answered in the end, and pending effects are run
SpecPagesFair ==
    /\ SpecPages
    /\ WF_vars(PageCommit)
    /\ WF_vars(\E req \in page.inflight : \E out \in Outcomes(req.api) : Respond(req, out))

----------------------------------------------------------------------------
(* Properties *)

\* the definition an instance says it matches
CurrentDefinition(instance) == DefinitionById(instance.definitionId)

\* values holds, for one field, what the instantiate priority gives:
\* the initial value when the key is supplied, else the default, else nothing
ResolvedByPriority(values, field, init) ==
    IF field.id \in DOMAIN init
    THEN field.id \in DOMAIN values /\ values[field.id] = init[field.id]
    ELSE IF HasDefault(field)
    THEN field.id \in DOMAIN values /\ values[field.id] = field.defaultValue
    ELSE field.id \notin DOMAIN values

FieldsOf(def) == { FlattenedFields(def)[i] : i \in 1..Len(FlattenedFields(def)) }

\* C1: reconcile never clobbers an existing value: every field of the new
\* definition that had an entry before the reconcile has the same entry after
\* it, whatever the initial map or the declared default says.
C1_ReconcileKeepsExistingValues ==
    call.op = "reconcile" =>
        \A f \in FlattenedIds(definition) :
            f \in DOMAIN call.prev.values =>
                /\ f \in DOMAIN form.values
                /\ form.values[f] = call.prev.values[f]

\* chunk_size 750 (from the default) survives a reconcile with init {chunk_size: 900}
C1_Witness ==
    /\ call.op = "reconcile"
    /\ "chunk_size" \in FlattenedIds(definition)
    /\ "chunk_size" \in DOMAIN call.prev.values
    /\ call.prev.values["chunk_size"] = "750"
    /\ "chunk_size" \in DOMAIN initial
    /\ initial["chunk_size"] = "900"
    /\ form.values["chunk_size"] = "750"

\* C2: reconcile is idempotent: reconciling the result of a reconcile against
\* the same definition and initial map gives the same values and definitionId.
C2_ReconcileIdempotent ==
    call.op = "reconcile" =>
        LET again == reconcileFlowForm(form, definition, initial)
        IN /\ again.values = form.values
           /\ again.definitionId = form.definitionId

\* a reconcile that pruned a field, filled one from the initial map and changed the id
C2_Witness ==
    /\ call.op = "reconcile"
    /\ call.prev.definitionId # form.definitionId
    /\ DOMAIN call.prev.values \ DOMAIN form.values # {}
    /\ \E f \in DOMAIN form.values \ DOMAIN call.prev.values : f \in DOMAIN initial

\* C3: reconcile prunes stale fields: a key of the prior values that is not a
\* field id of the new definition is absent from the result.
C3_ReconcilePrunesStaleFields ==
    call.op = "reconcile" =>
        \A k \in DOMAIN call.prev.values :
            k \notin FlattenedIds(definition) => k \notin DOMAIN form.values

\* {name, chunk_size} reconciled against the name-only definition gives exactly {name}
C3_Witness ==
    /\ call.op = "reconcile"
    /\ definition = DefNameOnly
    /\ DOMAIN call.prev.values = {"name", "chunk_size"}
    /\ DOMAIN form.values = {"name"}
    /\ form.values["name"] = call.prev.values["name"]

\* C4: reconcile fills a field that had no entry by the instantiate priority:
\* the initial value if the key is supplied, else the default, else absent.
C4_ReconcileFillsNewFields ==
    call.op = "reconcile" =>
        \A field \in FieldsOf(definition) :
            field.id \notin DOMAIN call.prev.values =>
                ResolvedByPriority(form.values, field, initial)

\* {name} reconciled against [name, hf_api_key] with init {hf_api_key: v} gains hf_api_key = v
C4_Witness ==
    /\ call.op = "reconcile"
    /\ definition = DefWithKey
    /\ DOMAIN call.prev.values = {"name"}
    /\ "hf_api_key" \in DOMAIN initial
    /\ DOMAIN form.values = {"name", "hf_api_key"}
    /\ form.values["hf_api_key"] = initial["hf_api_key"]
    /\ form.values["name"] = call.prev.values["name"]

\* C5: instantiate resolves every field of the definition by priority: the
\* initial value when the key is supplied (a falsy value included), else the
\* declared default, else the key is absent.
C5_InstantiateResolvesByPriority ==
    call.op = "instantiate" =>
        \A field \in FieldsOf(definition) :
            ResolvedByPriority(form.values, field, initial)

\* a supplied 0 wins over the default 750, and name (no initial, no default) is absent
C5_Witness ==
    /\ call.op = "instantiate"
    /\ definition = DefScenario
    /\ "chunk_size" \in DOMAIN initial
    /\ initial["chunk_size"] = "0"
    /\ form.values["chunk_size"] = "0"
    /\ "name" \notin DOMAIN form.values

\* C6: update is a localized merge: the result's values are the prior values
\* overlaid by the patch, and definitionId is unchanged.
C6_UpdateIsLocalizedMerge ==
    call.op = "update" =>
        /\ form.definitionId = call.prev.definitionId
        /\ DOMAIN form.values = DOMAIN call.prev.values \cup DOMAIN call.patch
        /\ \A k \in DOMAIN form.values :
               form.values[k] = IF k \in DOMAIN call.patch
                                THEN call.patch[k]
                                ELSE call.prev.values[k]

\* an update that overwrote one entry while another entry was present
C6_Witness ==
    /\ call.op = "update"
    /\ \E k \in DOMAIN call.patch :
           /\ k \in DOMAIN call.prev.values
           /\ call.prev.values[k] # call.patch[k]
           /\ form.values[k] = call.patch[k]
    /\ \E k \in DOMAIN call.prev.values \ DOMAIN call.patch :
           form.values[k] = call.prev.values[k]

\* keys of values the instance's own definition does not declare
StaleKeys(instance) ==
    DOMAIN instance.values \ FlattenedIds(CurrentDefinition(instance))

\* C7 (as claimed): in every reachable state, values contains no key that is
\* absent from the flattened field list of the definition named by definitionId.
C7_ValuesOnlyHoldDeclaredFields == StaleKeys(form) = {}

\* C7 (amended): directly after instantiate, reconcile and reset values holds
\* no key the definition named by definitionId does not declare; update stores
\* the keys of its patch unvalidated, so an undeclared key is in values only if
\* an update patched it, and it stays until the next reconcile or reset.
C7_OnlyUpdateStoresUndeclaredKeys ==
    /\ call.op \in {"instantiate", "reconcile", "reset"} => StaleKeys(form) = {}
    /\ call.op = "update" =>
           StaleKeys(form) = StaleKeys(call.prev)
                             \cup (DOMAIN call.patch \ FlattenedIds(CurrentDefinition(form)))

\* a reconcile that removed a key which an update had stored outside the definition
C7_Witness ==
    /\ call.op = "reconcile"
    /\ StaleKeys(call.prev) # {}
    /\ call.prev.definitionId = form.definitionId
    /\ StaleKeys(form) = {}

\* C8 (as claimed): in every reachable state, values has an entry for every
\* field of the current definition that has at some earlier point received a
\* default, an initial value or a user edit.
C8_EveryReceivedFieldHasEntry ==
    \A f \in FlattenedIds(CurrentDefinition(form)) :
        f \in received => f \in DOMAIN form.values

\* C8 (amended): after each operation, a field of the current definition has
\* an entry exactly when it had one in the instance the operation was applied
\* to (update, reconcile) or the operation itself gave it a patch value, an
\* initial value or a default; an entry dropped by a reconcile against a
\* definition without the field, or discarded by reset, is not restored when
\* the field comes back.
C8_EntriesComeFromLastOperation ==
    \A field \in FieldsOf(CurrentDefinition(form)) :
        LET f == field.id
            effective == IF call.op = "reset" /\ call.nextInitial.given
                         THEN call.nextInitial.map
                         ELSE initial
            supplied == f \in DOMAIN effective \/ HasDefault(field)
        IN f \in DOMAIN form.values <=>
               CASE call.op = "update" -> f \in DOMAIN call.prev.values \/ f \in DOMAIN call.patch
                 [] call.op = "reconcile" -> f \in DOMAIN call.prev.values \/ supplied
                 [] OTHER -> supplied

\* hf_api_key received a value, was pruned by a reconcile against a definition
\* without it, and is absent after the reconcile that re-introduced it
C8_Witness ==
    /\ call.op = "reconcile"
    /\ "hf_api_key" \in received
    /\ "hf_api_key" \in FlattenedIds(definition)
    /\ "hf_api_key" \notin DOMAIN call.prev.values
    /\ "hf_api_key" \notin DOMAIN form.values

\* C9: reset returns what instantiate returns for (definition, nextInitial ??
\* initial) and carries nothing over from the instance held before.
C9_ResetEqualsInstantiate ==
    call.op = "reset" =>
        LET effective == IF call.nextInitial.given THEN call.nextInitial.map ELSE initial
        IN /\ form.definitionId = definition.id
           /\ DOMAIN form.values \subseteq FlattenedIds(definition)
           /\ \A field \in FieldsOf(definition) :
                  ResolvedByPriority(form.values, field, effective)

\* a reset that discarded an edited name and an edited chunk_size
C9_Witness ==
    /\ call.op = "reset"
    /\ definition = DefScenario
    /\ "name" \in DOMAIN call.prev.values
    /\ "chunk_size" \in DOMAIN call.prev.values
    /\ call.prev.values["chunk_size"] # "750"
    /\ ~call.nextInitial.given
    /\ initial = EmptyMap
    /\ DOMAIN form.values = {"chunk_size"}
    /\ form.values["chunk_size"] = "750"

\* C10: after reconcile the result's definitionId is the id of the definition
\* reconciled against, also when the instance named another definition before.
C10_ReconcileSetsDefinitionId ==
    call.op = "reconcile" => form.definitionId = definition.id

\* a reconcile of an instance that named a different definition
C10_Witness ==
    /\ call.op = "reconcile"
    /\ call.prev.definitionId # definition.id
    /\ form.definitionId = definition.id

\* C11: instantiate returns an instance whose definitionId is the definition's
\* id and whose values holds only resolved entries: no key outside the
\* flattened field ids (a key of the initial map that names no field is left
\* out) and no field that has neither an initial value nor a default.
C11_InstantiateHoldsOnlyResolvedEntries ==
    call.op = "instantiate" =>
        /\ form.definitionId = definition.id
        /\ DOMAIN form.values \subseteq FlattenedIds(definition)
        /\ \A k \in DOMAIN initial \ FlattenedIds(definition) : k \notin DOMAIN form.values
        /\ \A field \in FieldsOf(definition) :
               (field.id \notin DOMAIN initial /\ ~HasDefault(field))
                   => field.id \notin DOMAIN form.values

\* name-only definition mounted with init {chunk_size: ...}: values is empty
C11_Witness ==
    /\ call.op = "instantiate"
    /\ definition = DefNameOnly
    /\ "chunk_size" \in DOMAIN initial
    /\ DOMAIN form.values = {}

\* C12: update does not validate patched keys: every key of the patch is in
\* values after the update, declared or not; an undeclared key already held
\* stays across further updates; the next reconcile against a definition that
\* does not declare it removes it.
C12_UndeclaredKeyStoredUntilReconcile ==
    /\ call.op = "update" =>
           /\ \A k \in DOMAIN call.patch :
                  k \in DOMAIN form.values /\ form.values[k] = call.patch[k]
           /\ \A k \in StaleKeys(call.prev) \ DOMAIN call.patch :
                  k \in DOMAIN form.values /\ form.values[k] = call.prev.values[k]
    /\ call.op = "reconcile" =>
           \A k \in StaleKeys(call.prev) :
               k \notin FlattenedIds(definition) => k \notin DOMAIN form.values

\* an undeclared key, stored by an earlier update, is still held after an
\* update of another field
C12_Witness ==
    /\ call.op = "update"
    /\ StaleKeys(call.prev) # {}
    /\ DOMAIN call.patch \cap StaleKeys(call.prev) = {}
    /\ StaleKeys(call.prev) \subseteq StaleKeys(form)

\* the fields a definition declares, whatever their section and order
DeclaredFields(def) ==
    UNION { { def.sections[i][j] : j \in 1..Len(def.sections[i]) } : i \in 1..Len(def.sections) }

\* C17: sections are organizational only: two definitions with the same fields,
\* grouped into other sections or listed in another order, give the same
\* values on instantiate and on reconcile of the same instance and initial map.
C17_SectionsDoNotAffectValues ==
    \A d1 \in Definitions, d2 \in Definitions :
        DeclaredFields(d1) = DeclaredFields(d2) =>
            /\ createFlowForm(d1, initial).values = createFlowForm(d2, initial).values
            /\ reconcileFlowForm(form, d1, initial).values
                   = reconcileFlowForm(form, d2, initial).values

\* a reconcile against the regrouped definition that kept name and filled
\* chunk_size, exactly as the scenario definition does
C17_Witness ==
    /\ call.op = "reconcile"
    /\ definition = DefRegrouped
    /\ DOMAIN call.prev.values = {"name"}
    /\ DOMAIN form.values = {"name", "chunk_size"}
    /\ form.values = reconcileFlowForm(call.prev, DefScenario, initial).values

\* C13: once an update has set hf_api_key to the empty string, the field
\* counts as having a value: until the user edits it again, every reconcile,
\* also one whose initial map carries a non-empty stored key, leaves it at the
\* empty string, so a key that arrives after the user cleared the field is
\* never applied.
C13_ClearedFieldStaysEmpty ==
    apiKey.cleared =>
        /\ "hf_api_key" \in DOMAIN form.values
        /\ form.values["hf_api_key"] = ""

\* the user cleared the field, then a reconcile ran with a non-empty stored key
C13_Witness ==
    /\ apiKey.cleared
    /\ call.op = "reconcile"
    /\ initial["hf_api_key"] # ""
    /\ call.prev.values["hf_api_key"] = ""
    /\ form.values["hf_api_key"] = ""

\* C19 (as claimed): when the hfApiKey prop supplies a key after the first
\* render and the user has not edited hf_api_key, then once the effects have
\* settled the field holds that key.
C19_LateKeyReachesUntouchedField ==
    (Settled /\ ~apiKey.touched /\ Truthy(apiKey.hfApiKey)) =>
        CurrentKey(form) = apiKey.hfApiKey

\* both outputs computed from the snapshot have been stored
BothStored == store.snapshot # NoRef /\ Len(store.stored) = 2

\* the ids a definition declares, read section by section
DeclaredIds(def) == { field.id : field \in DeclaredFields(def) }

\* what a reconcile of the snapshot alone gives for a declared field
FromSnapshot(snap, def, init, f) ==
    IF f \in DOMAIN snap.values THEN <<snap.values[f]>>
    ELSE IF f \in DOMAIN init THEN <<init[f]>>
    ELSE IF \E field \in DeclaredFields(def) : field.id = f /\ HasDefault(field)
         THEN <<(CHOOSE field \in DeclaredFields(def) : field.id = f).defaultValue>>
    ELSE <<>>

C15_OperationsLeaveArgumentsUnchanged ==
    /\ store.heap[DefRef] = definition
    /\ store.heap[InitRef] = initial
    /\ store.snapshot # NoRef =>
          /\ store.heap[store.snapshot] = store.snapValue
          /\ store.update.ref # store.snapshot
          /\ store.reconcile.ref # store.snapshot
    /\ store.reconcile.ref # NoRef =>
          /\ store.heap[store.reconcile.defRef] = store.reconcile.def
          /\ store.heap[store.reconcile.initRef] = store.reconcile.init

\* an update and a reconcile that both change values were computed and
\* stored, after a reset; the snapshot still reads as before
C15_Witness ==
    /\ BothStored
    /\ store.resets > 0
    /\ store.heap[store.snapshot] = store.snapValue
    /\ store.heap[store.update.ref] # store.snapValue
    /\ store.heap[store.reconcile.ref] # store.snapValue
    /\ form # store.snapValue

\* C16: forms on one page never interact: whatever the interleaving, an
\* update, a reconcile or a reset applied to one form leaves the instance of
\* every other form as it was, also for the field ids (chunk_size,
\* chunk_overlap) that the auto-build, text and upload definitions share.
C16_FormsNeverInteract ==
    [][\A n \in FormNames : n # call'.form => forms'[n] = forms[n]]_vars

\* the auto-build form's chunk_size was edited and the text and upload forms,
\* which declare the same field id, still hold the default
C16_Witness ==
    /\ call.op = "update"
    /\ call.form = "auto"
    /\ forms["auto"].values["chunk_size"] = "900"
    /\ forms["text"].values["chunk_size"] = "750"
    /\ forms["upload"].values["chunk_size"] = "750"

NoDuplicates(s) == \A i, j \in 1..Len(s) : s[i] = s[j] => i = j

\* the loading flag of a call is still set although the call is over
LoadingLeftSet(p, c) ==
    IF c.api = "file"
    THEN p.kind = "Playground" /\ p.task = NoTask /\ p.uploading
    ELSE LoadingFlag(p, c)

\* C18 (as claimed): every page action that calls the API catches a thrown
\* failure and stores its message in the matching status or error state,
\* clears the matching loading flag, and calls the API at most once per
\* triggering event.  Checked at every response that is not stale.
C18_ApiFailureIsStoredAndFlagCleared ==
    [][(call'.op = "respond" /\ ~call'.ignore) =>
          /\ ~call'.ok => ErrorField(page', call') = Boom
          /\ ~LoadingLeftSet(page', call')
          /\ (page.task # NoTask /\ page'.task = NoTask) => NoDuplicates(page.task.calls)
      ]_vars

\* the name a create handler reads at submit time, trimmed
SubmittedName ==
    IF page.kind = "Workbench" THEN Trim(ValueOrEmpty(forms["create"], "name"))
    ELSE Trim(page.createName)

\* the step changed the named status message and nothing else of the page
\* (the count of user actions aside) and no form
OnlyMessageChanged(n) ==
    /\ forms' = forms
    /\ page' = [page EXCEPT !.status[n] = page'.status[n], !.events = page'.events]

\* C20: required fields are checked by the caller at submit time.  A create
\* whose trimmed name is empty sets 'Name is required' and changes nothing
\* else: no request is sent, the form values, the list and the selection stay.
\* A text ingest with no workspace selected or with empty trimmed content
\* sends no request either.
C20_FailedCheckOnlySetsMessage ==
    [][/\ (call'.op \in {"handleCreate", "handleCreateKnowledgeBase"} /\ SubmittedName = "") =>
             /\ page'.status["create"] = NameRequired
             /\ OnlyMessageChanged("create")
       /\ (/\ call'.op = "handleTextIngest"
           /\ \/ page.selectedId = NullKey
              \/ Trim(ValueOrEmpty(forms["text"], "content")) = "") =>
             OnlyMessageChanged("text")
      ]_vars

\* a Workbench create was submitted with a name of whitespace only, while a
\* workspace was selected and listed: the message is set, nothing is in flight
C20_Witness ==
    /\ call.op = "handleCreate"
    /\ page.kind = "Workbench"
    /\ ValueOrEmpty(forms["create"], "name") = Blank
    /\ page.status["create"] = NameRequired
    /\ page.selectedId # NullKey
    /\ page.inflight = {}
    /\ page.task = NoTask

SubmitForms == {"create", "auto", "text"}

\* the values a definition's declared defaults give, and nothing else
DefaultsOnly(def) ==
    LET withDefault == { field \in DeclaredFields(def) : HasDefault(field) }
    IN [k \in { field.id : field \in withDefault } |->
           (CHOOSE field \in withDefault : field.id = k).defaultValue]

\* the step is the answer to the submit request of form n
SubmitAnswered(n) ==
    /\ page.kind = "Workbench"
    /\ call'.op = "respond"
    /\ call'.owner = "task"
    /\ call'.api = n

\* C21: a Workbench form is reset only after a successful submission.  When
\* the create, auto-build or text request throws, the form still holds what
\* the user entered; when it resolves, the form equals a fresh instance of
\* its definition (only the declared defaults remain); and no step other than
\* an edit or a successful submission changes a form.
C21_ResetOnlyAfterSuccess ==
    [][page.kind = "Workbench" =>
          \A n \in SubmitForms :
             /\ (SubmitAnswered(n) /\ ~call'.ok) => forms'[n] = forms[n]
             /\ (SubmitAnswered(n) /\ call'.ok) =>
                   /\ forms'[n].definitionId = FormDefinition(n).id
                   /\ forms'[n].values = DefaultsOnly(FormDefinition(n))
             /\ forms'[n] # forms[n] =>
                   \/ SubmitAnswered(n) /\ call'.ok
                   \/ call'.op = "update" /\ call'.form = n
      ]_vars

\* the text submission failed and the form still holds the typed content
C21_Witness ==
    /\ page.kind = "Workbench"
    /\ call.op = "respond"
    /\ call.api = "text"
    /\ ~call.ok
    /\ page.status["text"] = Boom
    /\ ValueOrEmpty(forms["text"], "content") = "Docs"

\* the Playground is at rest: every effect has run and no request is in flight,
\* so nothing but a user action can change the page any more
PlaygroundAtRest ==
    page.kind = "Playground" /\ ~page.unmounted /\ ~PageCommitDue /\ page.inflight = {}

\* C22 (as claimed): after handleDocumentSelect(docId) the document-loading
\* state always ends, also for the id that is already selected: once every
\* request has been answered and every effect has run, documentLoading is
\* false and documentDetail or documentError is set.  (A state at rest lasts
\* until the user acts, so a loading flag still set there is never cleared.)
C22_DocumentLoadingEnds ==
    (PlaygroundAtRest /\ page.selectedDocumentId # NullKey) =>
        /\ ~page.documentLoading
        /\ (page.documentDetail # NullKey \/ page.documentError # NullKey)

\* C23 (as claimed): in the Playground, whenever no request is in flight and
\* detailError is null, detail is null or the detail of the workspace that
\* selectedId names, for every interleaving of selections, uploads and
\* responses.
C23_DetailMatchesSelection ==
    (PlaygroundAtRest /\ page.detailError = NullKey) =>
        (page.detail = NoDetail \/ page.detail.id = page.selectedId)

\* C24: in the Playground the answer to an effect-driven fetch whose effect
\* was cleaned up (selectedId or selectedDocumentId changed, or the page was
\* left) is discarded: whether it succeeded or failed, the step changes
\* nothing of the page but the set of requests in flight (so none of
\* knowledgeBases, selectedId, detail, documentDetail, the error cells and
\* the loading flags).
C24_StaleResponsesChangeNothing ==
    [][(page.kind = "Playground" /\ call'.op = "respond" /\ call'.ignore) =>
          /\ page' = [page EXCEPT !.inflight = page'.inflight]
          /\ page'.inflight \subseteq page.inflight
          /\ forms' = forms
      ]_vars

\* the detail of A arrived, successfully, after the user had moved on to B
C24_Witness ==
    /\ page.kind = "Playground"
    /\ call.op = "respond"
    /\ call.ignore
    /\ call.ok
    /\ call.api = "get"
    /\ page.selectedId = "B"
    /\ page.detail.id # "A"

\* the request that the step answered
Answered == CHOOSE r \in page.inflight : r \notin page'.inflight /\ r.api = call'.api

\* C25: in the Playground, after every successful list load or refresh,
\* selectedId is null exactly when the returned list is empty, and otherwise
\* it names an entry of the list: the requested target, or without one the
\* selection the caller held (the latest one for the mount fetch, the one at
\* the call for refreshKnowledgeBases), when that is in the list, and the
\* first entry when it is not.
C25_SelectionFollowsList ==
    [][(/\ page.kind = "Playground"
        /\ call'.op = "respond" /\ call'.api = "list" /\ call'.ok /\ ~call'.ignore) =>
          LET data == page'.knowledgeBases
              wanted == IF Answered.owner = "listEffect" THEN page.selectedId
                        ELSE Answered.a
          IN /\ (page'.selectedId = NullKey) <=> (data = <<>>)
             /\ data # <<>> =>
                   /\ page'.selectedId \in SeqToSet(data)
                   /\ page'.selectedId = IF wanted \in SeqToSet(data) THEN wanted
                                         ELSE data[1]
      ]_vars

\* a create succeeded with id B, the refreshed list holds only A, and A, the
\* first entry, is selected
C25_Witness ==
    /\ page.kind = "Playground"
    /\ call.op = "respond"
    /\ call.api = "list"
    /\ call.owner = "task"
    /\ call.ok
    /\ page.status["create"] = Succeeded
    /\ page.knowledgeBases = <<"A">>
    /\ page.selectedId = "A"

\* the files of the running upload that were acknowledged
Acknowledged == Len(page.fileInput) - Len(page.task.files)

\* the running upload has sent the first k files, in the order of the list
SentInOrder(k) ==
    /\ k <= Len(page.fileInput)
    /\ Len(page.task.calls) >= k
    /\ \A i \in 1..k : page.task.calls[i] = <<"file", page.task.sel, page.fileInput[i]>>
    /\ \A i \in 1..Len(page.task.calls) : page.task.calls[i][1] = "file" => i <= k

\* one step of a Playground upload keeps to the protocol
UploadStep ==
    /\ (page'.task.name = "file" /\ page'.task.pc = "file") =>
          \* file k+1 is out only after k acknowledgements, and nothing else is
          /\ LET k == Len(page'.fileInput) - Len(page'.task.files)
             IN /\ Len(page'.task.calls) = k + 1
                /\ \A i \in 1..(k + 1) :
                      page'.task.calls[i] = <<"file", page'.task.sel, page'.fileInput[i]>>
                /\ { r \in page'.inflight : r.owner = "task" }
                      = { r \in page'.inflight :
                            /\ r.owner = "task" /\ r.api = "file"
                            /\ r.b = page'.fileInput[k + 1] }
                /\ Cardinality({ r \in page'.inflight : r.owner = "task" }) = 1
    /\ (page.status["upload"] # Succeeded /\ page'.status["upload"] = Succeeded) =>
          \* the success status is set when the last file is acknowledged
          /\ call'.op = "respond" /\ call'.api = "file" /\ call'.ok
          /\ Acknowledged + 1 = Len(page.fileInput)
          /\ SentInOrder(Len(page.fileInput))
    /\ (/\ call'.op = "respond" /\ call'.api = "file"
        /\ ~call'.ok /\ page.task.name = "file") =>
          \* a failure sets the error status and skips the files that remain
          /\ page'.status["upload"] = Boom
          /\ page'.task = NoTask
          /\ page'.inflight \subseteq page.inflight
    /\ (page.task.name = "file" /\ page'.task = NoTask /\ ~page'.unmounted) =>
          \* the handler has ended
          /\ ~page'.uploading
          /\ page'.fileInput = <<>>

\* C26: a Playground upload of several files sends them one at a time in list
\* order, each only after the one before it was acknowledged; the success
\* status is set only when all were acknowledged; the first failure sets the
\* error status and no later file is sent; and in every case, while the page
\* is shown, uploading returns to false with the file input cleared.
C26_UploadIsSequential ==
    /\ [][page.kind = "Playground" => UploadStep]_vars
    /\ [](page.uploading => <>(page.unmounted \/ (~page.uploading /\ page.fileInput = <<>>)))

\* both files of an upload were acknowledged and the list is being refreshed
C26_Witness ==
    /\ page.kind = "Playground"
    /\ page.task.name = "file"
    /\ page.task.pc = "list"
    /\ page.fileInput = <<"f1", "f2">>
    /\ page.task.calls = <<<<"file", page.task.sel, "f1">>, <<"file", page.task.sel, "f2">>,
                           <<"list", page.task.sel, NullKey>>>>
    /\ page.status["upload"] = Succeeded
    /\ page.uploading

\* C27: when a Playground upload that was started with W selected succeeds and
\* W is in the refreshed list, the refresh sets selectedId to W, also when the
\* user selected another entry while the upload was in flight.
C27_UploadReselectsItsWorkspace ==
    [][(/\ page.kind = "Playground"
        /\ page.task.name = "file"
        /\ call'.op = "respond" /\ call'.api = "list" /\ call'.owner = "task" /\ call'.ok
        /\ page.task.sel \in SeqToSet(page'.knowledgeBases)) =>
          page'.selectedId = page.task.sel
      ]_vars

\* the upload was started on A, the user went to B, and the refresh of the
\* upload has put the selection back on A
C27_Witness ==
    /\ page.kind = "Playground"
    /\ page.task.name = "file"
    /\ page.task.sel = "A"
    /\ call.op = "respond"
    /\ call.api = "list"
    /\ call.owner = "task"
    /\ call.ok
    /\ page.seen.selectedId = "B"
    /\ page.selectedId = "A"

\* the effects run whenever a committed render is waiting for them
SpecUploadFair == SpecUpload /\ WF_vars(UploadCommit)

\* C28: in the Workbench, once the user and the parent stop acting, the effects
\* that tie the upload form to the stored key stop changing the key and the
\* form; and whenever they are at rest, storedKey is the key of the form
\* (String(form.values.hf_api_key ?? '')), held in local storage when it is
\* not empty and absent from it when it is.
C28_KeyEffectsSettle ==
    /\ [](Settled =>
            /\ apiKey.storedKey = CurrentKey(form)
            /\ apiKey.localStorage = IF apiKey.storedKey # "" THEN apiKey.storedKey
                                     ELSE NullKey)
    /\ (<>[][UploadCommit]_vars) => <>[]Settled

\* the user typed a key, the effects have run, and the key is stored
C28_Witness ==
    /\ Settled
    /\ apiKey.touched
    /\ CurrentKey(form) = "hf_typed"
    /\ apiKey.storedKey = "hf_typed"
    /\ apiKey.localStorage = "hf_typed"
    /\ apiKey.hfApiKey = "hf_prop"

\* C29: in useFlowForm an edit and a reconcile are each applied to the latest
\* stored instance.  In either order of an edit of field f and a reconcile,
\* the instance held afterwards has the edited value of f whenever f is a
\* field of the definition reconciled against; after a reconcile followed by
\* the edit, the other values are those of the reconciled instance.
C29_NoEditLostToReconcile ==
    [][/\ (call.op = "update" /\ call'.op = "reconcile") =>
            /\ call'.prev = form
            /\ \A f \in DOMAIN call.patch :
                  f \in FlattenedIds(definition') =>
                     /\ f \in DOMAIN form'.values
                     /\ form'.values[f] = call.patch[f]
       /\ (call.op = "reconcile" /\ call'.op = "update") =>
            /\ call'.prev = form
            /\ \A f \in DOMAIN call'.patch :
                  /\ f \in DOMAIN form'.values
                  /\ form'.values[f] = call'.patch[f]
            /\ \A k \in DOMAIN form.values \ DOMAIN call'.patch :
                  /\ k \in DOMAIN form'.values
                  /\ form'.values[k] = form.values[k]
      ]_vars

\* the user typed a name, then the page was reconciled against another
\* definition that has the field, with an initial map that offers another name
C29_Witness ==
    /\ page = Unused
    /\ apiKey = Unused
    /\ call.op = "reconcile"
    /\ call.prev.definitionId # definition.id
    /\ "name" \in DOMAIN call.prev.values
    /\ call.prev.values["name"] = "Docs"
    /\ "name" \in DOMAIN initial
    /\ initial["name"] = "900"
    /\ form.values["name"] = "Docs"

\* C30: in the Workbench, once every getKnowledgeBase request has been
\* answered, successfully, and the effects have run, detail is the detail of
\* the selected workspace, whatever the order of the answers.
C30_DetailOfSelectedWorkspace ==
    (/\ page.kind = "Workbench"
     /\ ~PageCommitDue
     /\ \A r \in page.inflight : r.api # "get"
     /\ page.detailError = NullKey
     /\ page.selectedId # NullKey) =>
        page.detail.id = page.selectedId

====
